---- MODULE Spec2Model ----
(***************************************************************************)
(* The quiz page (src/app/page.tsx, component Home): its React state, the  *)
(* two localStorage keys, the asynchronous sheet download and one action   *)
(* per event handler.  Indices (currentIndex, solvedQuestions, display     *)
(* indices) are 0-based as in the source; sequences are 1-based, so the    *)
(* element at source index i is seq[i + 1].                                *)
(***************************************************************************)
EXTENDS Integers, Sequences, FiniteSets, TLC

VARIABLES
    gameState,          \* 'loading' | 'menu' | 'quiz' | 'result' | 'history' | 'stats'
    allQuestions,       \* Question[]
    activeQuestions,    \* Question[]
    history,            \* HistoryItem[]
    questionStats,      \* text -> {total, correct}
    currentIndex,
    isCorrect,          \* "null" | "true" | "false"
    userSelectedIndex,  \* NoIndex or a display index
    solvedQuestions,    \* Set<number>
    currentOptions,     \* DisplayOption[]
    selectedCount,
    lsHistory,          \* localStorage 'quiz_history'
    lsStats,            \* localStorage 'quiz_question_stats'
    fetchState,         \* the Papa.parse download: "idle" | "pending" | "done"
    crashed,            \* the mount effect threw: the component tree is unmounted
    clock,              \* the wall clock read by new Date()
    attempted           \* positions answered in the running session (observation only)

vars == <<gameState, allQuestions, activeQuestions, history, questionStats,
          currentIndex, isCorrect, userSelectedIndex, solvedQuestions,
          currentOptions, selectedCount, lsHistory, lsStats, fetchState,
          crashed, clock, attempted>>

\* ---------------------------------------------------------------- bounds
\* Rows the sheet download may deliver.
MaxBank == 2
\* Answers counted over all question texts before the model stops answering.
MaxAnswers == 3
\* Sessions recorded in one page lifetime before the model stops recording.
MaxClock == 1
\* Values Math.random() takes: k / RandomGrain for k in 0..RandomGrain-1.
RandomGrain == 2
\* Rows of the bank when the ranking is studied on its own.
MaxRankBank == 3
\* Attempts a text may have when the ranking is studied on its own.
MaxRankAttempts == 2

\* ------------------------------------------------------- program constants
HistoryCap == 50
DefaultCount == 10
NoIndex == -1

\* ------------------------------------------------------------------ data
QA == [question |-> "A", option1 |-> "A1", option2 |-> "A2", option3 |-> "A3",
       option4 |-> "A4", answer |-> "1"]
QB == [question |-> "B", option1 |-> "B1", option2 |-> "B2", option3 |-> "B3",
       option4 |-> "B4", answer |-> "3"]
\* A second row with the text of QA.
QA2 == [question |-> "A", option1 |-> "a1", option2 |-> "a2", option3 |-> "a3",
        option4 |-> "a4", answer |-> "2"]
QC == [question |-> "C", option1 |-> "C1", option2 |-> "C2", option3 |-> "C3",
       option4 |-> "C4", answer |-> "4"]

\* The published sheet; a download delivers its first rows.
Sheet == <<QA, QA2, QB, QC>>

FetchResults == { SubSeq(Sheet, 1, n) : n \in 0..MaxBank }

\* Number(q.answer) on the answer strings of the sheet.
Number(s) ==
    CASE s = "1" -> 1 [] s = "2" -> 2 [] s = "3" -> 3 [] s = "4" -> 4
      [] OTHER -> 0

\* ------------------------------------------------------------ localStorage
Absent == [kind |-> "absent"]
Malformed == [kind |-> "malformed"]
JSON_stringify(v) == [kind |-> "json", val |-> v]
JSON_parse(s) == s.val
Parseable(s) == s.kind = "json"

\* Items written by earlier page lifetimes, newest first.
OldItem(i) ==
    [date |-> 0 - i, score |-> 0, total |-> 1,
     mode |-> [all |-> FALSE, count |-> 1, early |-> FALSE],
     mistakes |-> << [question |-> "Z", correctAnswer |-> "Z1"] >>]
OldHistory(n) == [i \in 1..n |-> OldItem(i)]
OldStats == [t \in {"Z"} |-> [total |-> 1, correct |-> 0]]

\* What the two keys may hold when the page is opened.
StoredPairs ==
    { <<Absent, Absent>>,
      <<JSON_stringify(OldHistory(HistoryCap)), JSON_stringify(OldStats)>>,
      <<Malformed, Absent>>,
      <<Absent, Malformed>> }

\* ---------------------------------------------------------------- helpers
Min(a, b) == IF a < b THEN a ELSE b

\* Variant: the element at j copied to i, the one at i lost.
SwapCopy(s, i, j) == [s EXCEPT ![i] = s[j]]

\* [newArray[i], newArray[j]] = [newArray[j], newArray[i]]
Swap(s, i, j) == [s EXCEPT ![i] = s[j], ![j] = s[i]]

\* Math.floor(Math.random() * (i + 1)) for Math.random() = k / RandomGrain.
Floor(k, i) == (k * (i + 1)) \div RandomGrain

\* The draws of one shuffle of n elements, rnd[i] for i = n-1 down to 1; one
\* value of Math.random() per shuffle.
RandomDraws(n) ==
    { [i \in 1..(n - 1) |-> Floor(k, i)] : k \in 0..(RandomGrain - 1) }

RECURSIVE shuffleLoop(_, _, _)
shuffleLoop(newArray, i, rnd) ==
    IF i > 0
    THEN shuffleLoop(Swap(newArray, i + 1, rnd[i] + 1), i - 1, rnd)
    ELSE newArray

shuffleArray(array, rnd) == shuffleLoop(array, Len(array) - 1, rnd)

generateShuffledOptions(q, rnd) ==
    shuffleArray(<< [text |-> q.option1, originalIndex |-> 1],
                    [text |-> q.option2, originalIndex |-> 2],
                    [text |-> q.option3, originalIndex |-> 3],
                    [text |-> q.option4, originalIndex |-> 4] >>, rnd)

OptionCount == 4

\* Variant: the record of the text is never looked up.
StatOfFresh(stats, text) == [total |-> 0, correct |-> 0]

\* questionStats[text] || { total: 0, correct: 0 }
StatOf(stats, text) ==
    IF text \in DOMAIN stats THEN stats[text] ELSE [total |-> 0, correct |-> 0]

EmptyStats == [t \in {} |-> [total |-> 0, correct |-> 0]]

RECURSIVE SumTotals(_, _)
SumTotals(stats, keys) ==
    IF keys = {} THEN 0
    ELSE LET k == CHOOSE x \in keys : TRUE
         IN stats[k].total + SumTotals(stats, keys \ {k})

\* ------------------------------------------------------------------- Init
Init ==
    /\ gameState = "loading"
    /\ allQuestions = <<>>
    /\ activeQuestions = <<>>
    /\ history = <<>>
    /\ questionStats = EmptyStats
    /\ currentIndex = 0
    /\ isCorrect = "null"
    /\ userSelectedIndex = NoIndex
    /\ solvedQuestions = {}
    /\ currentOptions = <<>>
    /\ selectedCount = DefaultCount
    /\ \E p \in StoredPairs : lsHistory = p[1] /\ lsStats = p[2]
    /\ fetchState = "idle"
    /\ crashed = FALSE
    /\ clock = 0
    /\ attempted = {}


\* ------------------------------------------------------- variable groups
bankVars == <<allQuestions, selectedCount>>
progressVars == <<currentIndex, isCorrect, userSelectedIndex, solvedQuestions,
                  currentOptions, attempted>>
ledgerVars == <<history, lsHistory, clock>>
statsVars == <<questionStats, lsStats>>
loadVars == <<fetchState, crashed>>

\* ---------------------------------------------------------------- startup
\* if (saved) setX(JSON.parse(saved)): the value read and whether parsing threw.
ReadStored(stored, current) ==
    IF stored = Absent THEN [value |-> current, threw |-> FALSE]
    ELSE IF Parseable(stored) THEN [value |-> JSON_parse(stored), threw |-> FALSE]
    ELSE [value |-> current, threw |-> TRUE]

\* Variant: the effect starts the download and reads nothing.
useEffectMountStartOnly ==
    /\ fetchState = "idle"
    /\ fetchState' = "pending"
    /\ UNCHANGED <<gameState, bankVars, activeQuestions, progressVars,
                   ledgerVars, statsVars, crashed>>

\* The mount effect: starts the download, then reads the two keys.  A JSON.parse
\* that throws ends the effect there, and React unmounts the tree.
useEffectMount ==
    /\ fetchState = "idle"
    /\ fetchState' = "pending"
    /\ LET h == ReadStored(lsHistory, history)
           q == ReadStored(lsStats, questionStats)
       IN /\ history' = h.value
          /\ questionStats' = IF h.threw THEN questionStats ELSE q.value
          /\ crashed' = (h.threw \/ q.threw)
    /\ UNCHANGED <<gameState, bankVars, activeQuestions, progressVars,
                   lsHistory, lsStats, clock>>

\* Papa.parse complete callback.  State setters of an unmounted tree do nothing.
PapaComplete(data) ==
    /\ fetchState = "pending"
    /\ fetchState' = "done"
    /\ IF crashed
       THEN UNCHANGED <<allQuestions, selectedCount, gameState>>
       ELSE /\ IF Len(data) > 0
               THEN /\ allQuestions' = data
                    /\ selectedCount' = IF Len(data) < DefaultCount
                                        THEN Len(data) ELSE selectedCount
               ELSE UNCHANGED <<allQuestions, selectedCount>>
            /\ gameState' = "menu"
    /\ UNCHANGED <<activeQuestions, progressVars, ledgerVars, statsVars, crashed>>

\* Papa.parse error callback.
PapaError ==
    /\ fetchState = "pending"
    /\ fetchState' = "done"
    /\ gameState' = IF crashed THEN gameState ELSE "menu"
    /\ UNCHANGED <<bankVars, activeQuestions, progressVars, ledgerVars,
                   statsVars, crashed>>

\* --------------------------------------------------------------- handlers
\* Variant: the progress of the session cleared on the way to the menu.
backToMenuResetting ==
    /\ gameState' = "menu"
    /\ currentIndex' = 0
    /\ isCorrect' = "null"
    /\ userSelectedIndex' = NoIndex
    /\ solvedQuestions' = {}
    /\ UNCHANGED <<bankVars, activeQuestions, currentOptions, attempted,
                   ledgerVars, statsVars, loadVars>>

\* setGameState('menu')
backToMenu ==
    /\ gameState' = "menu"
    /\ UNCHANGED <<bankVars, activeQuestions, progressVars, ledgerVars,
                   statsVars, loadVars>>

\* Variant: only negative counts are rejected.
CountRejectedBelowZero == selectedCount < 0

\* if (selectedCount <= 0) { alert(...); return; }
CountRejected == selectedCount <= 0

\* Variant: the cut to selectedCount left out.
QuestionsToPlayUncut(rndQ) == shuffleArray(allQuestions, rndQ)

\* shuffleArray(allQuestions), cut to selectedCount when that is smaller.
QuestionsToPlay(rndQ) ==
    LET shuffled == shuffleArray(allQuestions, rndQ)
    IN IF selectedCount < Len(shuffled)
       THEN SubSeq(shuffled, 1, selectedCount)
       ELSE shuffled

\* Variant: the start that keeps the solved set and the pending answer.
startQuizKeepingProgress(rndQ, rndO) ==
    IF CountRejected
    THEN UNCHANGED vars
    ELSE LET questionsToPlay == QuestionsToPlay(rndQ)
         IN /\ activeQuestions' = questionsToPlay
            /\ currentIndex' = 0
            /\ currentOptions' =
                 IF Len(questionsToPlay) > 0
                 THEN generateShuffledOptions(questionsToPlay[1], rndO)
                 ELSE currentOptions
            /\ attempted' = {}
            /\ gameState' = "quiz"
            /\ UNCHANGED <<bankVars, solvedQuestions, isCorrect, userSelectedIndex,
                           ledgerVars, statsVars, loadVars>>

startQuiz(rndQ, rndO) ==
    IF CountRejected
    THEN UNCHANGED vars
    ELSE LET questionsToPlay == QuestionsToPlay(rndQ)
         IN /\ activeQuestions' = questionsToPlay
            /\ currentIndex' = 0
            /\ solvedQuestions' = {}
            /\ isCorrect' = "null"
            /\ userSelectedIndex' = NoIndex
            /\ currentOptions' =
                 IF Len(questionsToPlay) > 0
                 THEN generateShuffledOptions(questionsToPlay[1], rndO)
                 ELSE currentOptions
            /\ attempted' = {}
            /\ gameState' = "quiz"
            /\ UNCHANGED <<bankVars, ledgerVars, statsVars, loadVars>>

\* Variant: the guard is missing.
NeverGuarded == FALSE

\* if (isCorrect !== null) return;
AlreadyAnswered == isCorrect # "null"

\* Variant: the display position compared with the answer number.
AnswerResultByPosition(displayIndex) ==
    displayIndex + 1 = Number(activeQuestions[currentIndex + 1].answer)

\* selectedOriginalIndex === correctOriginalIndex
AnswerResult(displayIndex) ==
    currentOptions[displayIndex + 1].originalIndex
        = Number(activeQuestions[currentIndex + 1].answer)

\* Variant: a question answered again in the same session is not counted again.
NewStatFirstVisitOnly(currentStat, result) ==
    IF currentIndex \in attempted
    THEN currentStat
    ELSE [total |-> currentStat.total + 1,
          correct |-> currentStat.correct + (IF result THEN 1 ELSE 0)]

\* Variant: total counts the wrong answers only.
NewStatWrongOnly(currentStat, result) ==
    [total |-> currentStat.total + (IF result THEN 0 ELSE 1),
     correct |-> currentStat.correct + (IF result THEN 1 ELSE 0)]

NewStat(currentStat, result) ==
    [total |-> currentStat.total + 1,
     correct |-> currentStat.correct + (IF result THEN 1 ELSE 0)]

\* Variant: the spread of the earlier statistics left out.
NewStatsOnlyCurrent(currentQText, newStat) ==
    [t \in {currentQText} |-> newStat]

\* { ...questionStats, [currentQText]: newStat }
NewStats(currentQText, newStat) ==
    [t \in DOMAIN questionStats \cup {currentQText} |->
        IF t = currentQText THEN newStat ELSE questionStats[t]]

\* Variant: a wrong answer takes the question out of the solved set.
handleAnswerUnsolving(displayIndex) ==
    IF AlreadyAnswered
    THEN UNCHANGED vars
    ELSE LET result == AnswerResult(displayIndex)
             currentQText == activeQuestions[currentIndex + 1].question
             currentStat == StatOf(questionStats, currentQText)
             newStats == NewStats(currentQText, NewStat(currentStat, result))
         IN /\ userSelectedIndex' = displayIndex
            /\ isCorrect' = IF result THEN "true" ELSE "false"
            /\ questionStats' = newStats
            /\ lsStats' = JSON_stringify(newStats)
            /\ solvedQuestions' = IF result
                                  THEN solvedQuestions \cup {currentIndex}
                                  ELSE solvedQuestions \ {currentIndex}
            /\ attempted' = attempted \cup {currentIndex}
            /\ UNCHANGED <<gameState, bankVars, activeQuestions, currentIndex,
                           currentOptions, ledgerVars, loadVars>>

\* Variant: the new statistics kept in memory only.
handleAnswerUnsaved(displayIndex) ==
    IF AlreadyAnswered
    THEN UNCHANGED vars
    ELSE LET result == AnswerResult(displayIndex)
             currentQText == activeQuestions[currentIndex + 1].question
             currentStat == StatOf(questionStats, currentQText)
         IN /\ userSelectedIndex' = displayIndex
            /\ isCorrect' = IF result THEN "true" ELSE "false"
            /\ questionStats' = NewStats(currentQText, NewStat(currentStat, result))
            /\ solvedQuestions' = IF result
                                  THEN solvedQuestions \cup {currentIndex}
                                  ELSE solvedQuestions
            /\ attempted' = attempted \cup {currentIndex}
            /\ UNCHANGED <<gameState, bankVars, activeQuestions, currentIndex,
                           currentOptions, ledgerVars, lsStats, loadVars>>

handleAnswer(displayIndex) ==
    IF AlreadyAnswered
    THEN UNCHANGED vars
    ELSE LET result == AnswerResult(displayIndex)
             currentQText == activeQuestions[currentIndex + 1].question
             currentStat == StatOf(questionStats, currentQText)
             newStats == NewStats(currentQText, NewStat(currentStat, result))
         IN /\ userSelectedIndex' = displayIndex
            /\ isCorrect' = IF result THEN "true" ELSE "false"
            /\ questionStats' = newStats
            /\ lsStats' = JSON_stringify(newStats)
            /\ solvedQuestions' = IF result
                                  THEN solvedQuestions \cup {currentIndex}
                                  ELSE solvedQuestions
            /\ attempted' = attempted \cup {currentIndex}
            /\ UNCHANGED <<gameState, bankVars, activeQuestions, currentIndex,
                           currentOptions, ledgerVars, loadVars>>

\* Variant: the answer number taken as a zero-based index.
CorrectAnswerTextZeroBased(q) ==
    LET correctIndex == Number(q.answer)
        options == <<q.option1, q.option2, q.option3, q.option4>>
    IN IF correctIndex \in 0..(Len(options) - 1) /\ options[correctIndex + 1] # ""
       THEN options[correctIndex + 1]
       ELSE "choice" \o q.answer

\* options[correctIndex] || `...${q.answer}`
CorrectAnswerText(q) ==
    LET correctIndex == Number(q.answer) - 1
        options == <<q.option1, q.option2, q.option3, q.option4>>
    IN IF correctIndex \in 0..(Len(options) - 1) /\ options[correctIndex + 1] # ""
       THEN options[correctIndex + 1]
       ELSE "choice" \o q.answer

\* The loop over i < actualTotal collecting the positions not in the solved set.
MistakesOf(actualTotal) ==
    LET positions == [k \in 1..actualTotal |-> k - 1]
        missed == SelectSeq(positions, LAMBDA i : i \notin solvedQuestions)
    IN [k \in 1..Len(missed) |->
          [question |-> activeQuestions[missed[k] + 1].question,
           correctAnswer |-> CorrectAnswerText(activeQuestions[missed[k] + 1])]]

\* Variant: the current question always counts.
FinishedCountInclusive == currentIndex + 1

\* isCorrect !== null ? currentIndex + 1 : currentIndex
FinishedCount == IF isCorrect # "null" THEN currentIndex + 1 ELSE currentIndex

ActualTotal(isEarlyExit) ==
    IF isEarlyExit THEN FinishedCount ELSE Len(activeQuestions)

NewHistoryItem(isEarlyExit) ==
    [date |-> clock + 1,
     score |-> Cardinality(solvedQuestions),
     total |-> ActualTotal(isEarlyExit),
     mode |-> [all |-> Len(activeQuestions) = Len(allQuestions),
               count |-> Len(activeQuestions),
               early |-> isEarlyExit],
     mistakes |-> MistakesOf(ActualTotal(isEarlyExit))]

\* Variant: the new item goes last.
AppendLast(item, h) ==
    LET all == h \o <<item>>
    IN SubSeq(all, 1, Min(Len(all), HistoryCap))

\* [newHistoryItem, ...history].slice(0, 50)
Prepend(item, h) ==
    LET all == <<item>> \o h
    IN SubSeq(all, 1, Min(Len(all), HistoryCap))

\* Variant: no early exit is discarded.
DiscardsNever(isEarlyExit) == FALSE

\* The early exit that records nothing: finishedCount === 0.
Discards(isEarlyExit) == isEarlyExit /\ FinishedCount = 0

\* Variant: the new item replaces the history.
finishQuizReplacing(isEarlyExit) ==
    IF Discards(isEarlyExit)
    THEN backToMenu
    ELSE LET newHistory == <<NewHistoryItem(isEarlyExit)>>
         IN /\ history' = newHistory
            /\ lsHistory' = JSON_stringify(newHistory)
            /\ gameState' = "result"
            /\ clock' = clock + 1
            /\ UNCHANGED <<bankVars, activeQuestions, progressVars, statsVars,
                           loadVars>>

finishQuiz(isEarlyExit) ==
    IF Discards(isEarlyExit)
    THEN backToMenu
    ELSE LET newHistory == Prepend(NewHistoryItem(isEarlyExit), history)
         IN /\ history' = newHistory
            /\ lsHistory' = JSON_stringify(newHistory)
            /\ gameState' = "result"
            /\ clock' = clock + 1
            /\ UNCHANGED <<bankVars, activeQuestions, progressVars, statsVars,
                           loadVars>>

\* Variant: the pending answer carried over to the next question.
handleNextKeepingAnswer(rndO) ==
    LET nextIndex == currentIndex + 1
    IN IF nextIndex < Len(activeQuestions)
       THEN /\ currentIndex' = nextIndex
            /\ currentOptions' =
                 generateShuffledOptions(activeQuestions[nextIndex + 1], rndO)
            /\ UNCHANGED <<gameState, bankVars, activeQuestions, isCorrect,
                           userSelectedIndex, solvedQuestions, attempted,
                           ledgerVars, statsVars, loadVars>>
       ELSE finishQuiz(FALSE)

handleNext(rndO) ==
    LET nextIndex == currentIndex + 1
    IN IF nextIndex < Len(activeQuestions)
       THEN /\ isCorrect' = "null"
            /\ userSelectedIndex' = NoIndex
            /\ currentIndex' = nextIndex
            /\ currentOptions' =
                 generateShuffledOptions(activeQuestions[nextIndex + 1], rndO)
            /\ UNCHANGED <<gameState, bankVars, activeQuestions, solvedQuestions,
                           attempted, ledgerVars, statsVars, loadVars>>
       ELSE finishQuiz(FALSE)

\* Variant: going back takes the question gone back to out of the solved set.
handlePrevUnsolving(rndO) ==
    IF currentIndex > 0
    THEN LET prevIndex == currentIndex - 1
         IN /\ isCorrect' = "null"
            /\ userSelectedIndex' = NoIndex
            /\ currentIndex' = prevIndex
            /\ solvedQuestions' = solvedQuestions \ {prevIndex}
            /\ currentOptions' =
                 generateShuffledOptions(activeQuestions[prevIndex + 1], rndO)
            /\ UNCHANGED <<gameState, bankVars, activeQuestions,
                           attempted, ledgerVars, statsVars, loadVars>>
    ELSE UNCHANGED vars

handlePrev(rndO) ==
    IF currentIndex > 0
    THEN LET prevIndex == currentIndex - 1
         IN /\ isCorrect' = "null"
            /\ userSelectedIndex' = NoIndex
            /\ currentIndex' = prevIndex
            /\ currentOptions' =
                 generateShuffledOptions(activeQuestions[prevIndex + 1], rndO)
            /\ UNCHANGED <<gameState, bankVars, activeQuestions, solvedQuestions,
                           attempted, ledgerVars, statsVars, loadVars>>
    ELSE UNCHANGED vars

\* Variant: the reset that forgets the statistics.
clearHistoryOnly(confirmed) ==
    IF confirmed
    THEN /\ history' = <<>>
         /\ lsHistory' = Absent
         /\ UNCHANGED <<gameState, bankVars, activeQuestions, progressVars,
                        statsVars, clock, loadVars>>
    ELSE UNCHANGED vars

\* confirmed is the answer to confirm(...).
clearHistory(confirmed) ==
    IF confirmed
    THEN /\ history' = <<>>
         /\ questionStats' = EmptyStats
         /\ lsHistory' = Absent
         /\ lsStats' = Absent
         /\ UNCHANGED <<gameState, bankVars, activeQuestions, progressVars,
                        clock, loadVars>>
    ELSE UNCHANGED vars

\* Variant: the upper limit of the count test left out.
handleCountChangeUncapped(val) ==
    /\ selectedCount' = IF val >= 0 THEN val ELSE selectedCount
    /\ UNCHANGED <<gameState, allQuestions, activeQuestions, progressVars,
                   ledgerVars, statsVars, loadVars>>

\* val is Number(e.target.value) of the range or number input.
handleCountChange(val) ==
    /\ selectedCount' = IF val >= 0 /\ val <= Len(allQuestions)
                        THEN val ELSE selectedCount
    /\ UNCHANGED <<gameState, allQuestions, activeQuestions, progressVars,
                   ledgerVars, statsVars, loadVars>>

\* onClick={() => setGameState('history')}, onClick={() => setGameState('stats')}
showScreen(screen) ==
    /\ gameState' = screen
    /\ UNCHANGED <<bankVars, activeQuestions, progressVars, ledgerVars,
                   statsVars, loadVars>>

\* ------------------------------------------------------- rendered controls
\* const currentQ = activeQuestions[currentIndex]; undefined is falsy.
currentQDefined == currentIndex + 1 \in 1..Len(activeQuestions)

\* gameState === 'quiz' && currentQ
QuizRendered == gameState = "quiz" /\ currentQDefined

\* Values typed into the count inputs.
CountInputs == (0 - 1)..(MaxBank + 1)

\* The start button of the menu and the restart button of the result screen.
ClickStart ==
    /\ gameState \in {"menu", "result"}
    /\ \E rndQ \in RandomDraws(Len(allQuestions)), rndO \in RandomDraws(OptionCount) :
          startQuiz(rndQ, rndO)

\* Variant: the history button offered on the quiz screen as well.
ClickHistoryInQuiz ==
    /\ gameState \in {"menu", "result", "quiz"}
    /\ showScreen("history")

\* The history buttons of the menu and of the result screen.
ClickHistory ==
    /\ gameState \in {"menu", "result"}
    /\ showScreen("history")

ClickStats ==
    /\ gameState \in {"menu", "result"}
    /\ showScreen("stats")

ChangeCount ==
    /\ gameState = "menu"
    /\ \E val \in CountInputs : handleCountChange(val)

\* The back buttons of the history, stats, quiz and result screens.
ClickBack ==
    /\ \/ gameState \in {"history", "stats", "result"}
       \/ QuizRendered
    /\ backToMenu

\* Variant: the reset link offered on the result screen as well.
ClickClearOnResult ==
    /\ \/ gameState = "history" /\ Len(history) > 0
       \/ gameState = "stats"
       \/ gameState = "result"
    /\ \E confirmed \in BOOLEAN : clearHistory(confirmed)

\* The reset links of the history screen (shown when history is non-empty) and
\* of the stats screen.
ClickClear ==
    /\ \/ gameState = "history" /\ Len(history) > 0
       \/ gameState = "stats"
    /\ \E confirmed \in BOOLEAN : clearHistory(confirmed)

\* The option buttons carry disabled={isCorrect !== null}; the handler repeats
\* that test, so the action is the handler.
ClickAnswer ==
    /\ QuizRendered
    /\ SumTotals(questionStats, DOMAIN questionStats) < MaxAnswers
    /\ \E displayIndex \in 0..(Len(currentOptions) - 1) : handleAnswer(displayIndex)

\* Variant: the next button rendered whether or not an answer is pending.
ClickNextUnanswered ==
    /\ QuizRendered
    /\ currentIndex + 1 < Len(activeQuestions) \/ clock < MaxClock
    /\ \E rndO \in RandomDraws(OptionCount) : handleNext(rndO)

\* {isCorrect !== null && <button onClick={handleNext}>}
ClickNext ==
    /\ QuizRendered
    /\ isCorrect # "null"
    /\ currentIndex + 1 < Len(activeQuestions) \/ clock < MaxClock
    /\ \E rndO \in RandomDraws(OptionCount) : handleNext(rndO)

ClickPrev ==
    /\ QuizRendered
    /\ \E rndO \in RandomDraws(OptionCount) : handlePrev(rndO)

\* onClick={() => finishQuiz(true)}
ClickFinishEarly ==
    /\ QuizRendered
    /\ Discards(TRUE) \/ clock < MaxClock
    /\ finishQuiz(TRUE)

UserAction ==
    \/ ClickStart
    \/ ClickHistory
    \/ ClickStats
    \/ ChangeCount
    \/ ClickBack
    \/ ClickClear
    \/ ClickAnswer
    \/ ClickNext
    \/ ClickPrev
    \/ ClickFinishEarly

Next ==
    \/ useEffectMount
    \/ \E data \in FetchResults : PapaComplete(data)
    \/ PapaError
    \/ UserAction

Spec == Init /\ [][Next]_vars

\* One of the two callbacks of Papa.parse.
FetchCallback == (\E data \in FetchResults : PapaComplete(data)) \/ PapaError

\* The mount effect runs after the first render, and the download ends by one
\* of its callbacks.
SpecFair == Spec /\ WF_vars(useEffectMount) /\ WF_vars(FetchCallback)

TypeOK ==
    /\ gameState \in {"loading", "menu", "quiz", "result", "history", "stats"}
    /\ isCorrect \in {"null", "true", "false"}
    /\ userSelectedIndex \in {NoIndex} \cup 0..(OptionCount - 1)
    /\ currentIndex \in Nat
    /\ selectedCount \in Nat
    /\ solvedQuestions \subseteq attempted
    /\ fetchState \in {"idle", "pending", "done"}
    /\ crashed \in BOOLEAN
    /\ clock \in 0..MaxClock

\* ----------------------------------------------------------- result screen
\* const currentScore = solvedQuestions.size
currentScore == Cardinality(solvedQuestions)

\* history[0]?.total || activeQuestions.length
ResultDenominator ==
    IF Len(history) > 0 /\ history[1].total # 0
    THEN history[1].total
    ELSE Len(activeQuestions)

\* Math.round(x / y * 100) for x >= 0, y > 0
RoundPercent(x, y) == (200 * x + y) \div (2 * y)

\* ------------------------------------------------------ weak-point ranking
\* stat.total > 0 ? (stat.correct / stat.total) * 100 : 0, kept as an exact
\* fraction: equal fractions give equal doubles, and different fractions of
\* counts this small give different doubles in the same order.
Accuracy(stat) ==
    IF stat.total > 0
    THEN [num |-> stat.correct * 100, den |-> stat.total]
    ELSE [num |-> 0, den |-> 1]

\* Variant: the difference taken the other way round.
AccuracyDiffReversed(x, y) == y.num * x.den - x.num * y.den

\* x - y for two accuracies, up to the positive factor x.den * y.den.
AccuracyDiff(x, y) == x.num * y.den - y.num * x.den

\* Variant: the record looked up by the text together with the answer number.
WithStatsPerRow(q) ==
    LET stat == StatOf(questionStats, q.question \o "#" \o q.answer)
    IN q @@ [statTotal |-> stat.total,
             statCorrect |-> stat.correct,
             accuracy |-> Accuracy(stat)]

\* The element the map callback returns:
\* { ...q, statTotal: stat.total, statCorrect: stat.correct, accuracy: acc }
WithStats(q) ==
    LET stat == StatOf(questionStats, q.question)
    IN q @@ [statTotal |-> stat.total,
             statCorrect |-> stat.correct,
             accuracy |-> Accuracy(stat)]

\* Variant: the two rules for unanswered questions left out.
compareStatsByAccuracy(a, b) ==
    IF AccuracyDiff(a.accuracy, b.accuracy) # 0
    THEN AccuracyDiff(a.accuracy, b.accuracy)
    ELSE b.statTotal - a.statTotal

\* The comparator handed to sort; only its sign matters.
compareStats(a, b) ==
    IF a.statTotal = 0 /\ b.statTotal > 0 THEN 1
    ELSE IF a.statTotal > 0 /\ b.statTotal = 0 THEN 0 - 1
    ELSE IF AccuracyDiff(a.accuracy, b.accuracy) # 0
         THEN AccuracyDiff(a.accuracy, b.accuracy)
         ELSE b.statTotal - a.statTotal

\* Array.prototype.sort with a comparator is a stable sort: an element goes
\* behind the last element that does not compare greater than it.
RECURSIVE InsertSorted(_, _)
InsertSorted(e, sorted) ==
    IF sorted = <<>> THEN <<e>>
    ELSE LET last == sorted[Len(sorted)]
         IN IF compareStats(last, e) > 0
            THEN Append(InsertSorted(e, SubSeq(sorted, 1, Len(sorted) - 1)), last)
            ELSE Append(sorted, e)

RECURSIVE sort(_)
sort(array) ==
    IF array = <<>> THEN <<>>
    ELSE InsertSorted(array[Len(array)], sort(SubSeq(array, 1, Len(array) - 1)))

getSortedStats ==
    sort([i \in 1..Len(allQuestions) |-> WithStats(allQuestions[i])])

\* ---- the ranking on its own: any bank, any statistics, the stats screen
RankRows == {Sheet[i] : i \in 1..Len(Sheet)}

\* Banks of up to MaxRankBank different rows, in any order.
RankBanks ==
    UNION { {b \in [1..n -> RankRows] : \A i, j \in 1..n : i # j => b[i] # b[j]} :
            n \in 0..MaxRankBank }

RankRecords ==
    {[total |-> t, correct |-> c] : t \in 1..MaxRankAttempts, c \in 0..MaxRankAttempts}

\* Statistics handleAnswer can have written: correct <= total for each text.
RankStats ==
    UNION { {m \in [texts -> RankRecords] : \A t \in texts : m[t].correct <= m[t].total} :
            texts \in SUBSET {r.question : r \in RankRows} }

\* The menu after a download of the bank, with the statistics of earlier
\* visits loaded.
RankInit ==
    /\ gameState = "menu"
    /\ allQuestions \in RankBanks
    /\ activeQuestions = <<>>
    /\ history = <<>>
    /\ questionStats \in RankStats
    /\ currentIndex = 0
    /\ isCorrect = "null"
    /\ userSelectedIndex = NoIndex
    /\ solvedQuestions = {}
    /\ currentOptions = <<>>
    /\ selectedCount = IF Len(allQuestions) \in 1..(DefaultCount - 1)
                       THEN Len(allQuestions) ELSE DefaultCount
    /\ lsHistory = Absent
    /\ lsStats = IF questionStats = EmptyStats
                 THEN Absent ELSE JSON_stringify(questionStats)
    /\ fetchState = "done"
    /\ crashed = FALSE
    /\ clock = 0
    /\ attempted = {}

RankNext == ClickStats \/ ClickBack \/ ClickClear

SpecRank == RankInit /\ [][RankNext]_vars

\* ---- the start on its own: any bank, any count, every outcome of the shuffle
\* Every value Math.floor(Math.random() * (i + 1)) can take, for each i of the
\* loop of one shuffle of n elements.
AllDraws(n) == {rnd \in [1..(n - 1) -> 0..(n - 1)] : \A i \in 1..(n - 1) : rnd[i] <= i}

\* Banks of up to MaxRankBank rows, repeated rows included.
StartBanks == UNION { [1..n -> RankRows] : n \in 0..MaxRankBank }

\* The menu after a download of the bank, nothing stored.
StartInit ==
    /\ gameState = "menu"
    /\ allQuestions \in StartBanks
    /\ activeQuestions = <<>>
    /\ history = <<>>
    /\ questionStats = EmptyStats
    /\ currentIndex = 0
    /\ isCorrect = "null"
    /\ userSelectedIndex = NoIndex
    /\ solvedQuestions = {}
    /\ currentOptions = <<>>
    /\ selectedCount = IF Len(allQuestions) \in 1..(DefaultCount - 1)
                       THEN Len(allQuestions) ELSE DefaultCount
    /\ lsHistory = Absent
    /\ lsStats = Absent
    /\ fetchState = "done"
    /\ crashed = FALSE
    /\ clock = 0
    /\ attempted = {}

\* The start button with every outcome of the shuffle of the bank.
ClickStartAnyDraw ==
    /\ gameState \in {"menu", "result"}
    /\ \E rndQ \in AllDraws(Len(allQuestions)), rndO \in RandomDraws(OptionCount) :
          startQuiz(rndQ, rndO)

\* The count is typed on the menu, then the quiz is started.
StartNext == ClickStartAnyDraw \/ ChangeCount

SpecStart == StartInit /\ [][StartNext]_vars

\* ---- the answer on its own: any row, every order of its options
\* A quiz of one question just started, its options in any order the shuffle
\* can produce.
AnswerInit ==
    /\ gameState = "quiz"
    /\ \E q \in RankRows, rnd \in AllDraws(OptionCount) :
          /\ allQuestions = <<q>>
          /\ activeQuestions = <<q>>
          /\ currentOptions = generateShuffledOptions(q, rnd)
    /\ history = <<>>
    /\ questionStats = EmptyStats
    /\ currentIndex = 0
    /\ isCorrect = "null"
    /\ userSelectedIndex = NoIndex
    /\ solvedQuestions = {}
    /\ selectedCount = 1
    /\ lsHistory = Absent
    /\ lsStats = Absent
    /\ fetchState = "done"
    /\ crashed = FALSE
    /\ clock = 0
    /\ attempted = {}

AnswerNext == ClickAnswer

SpecAnswer == AnswerInit /\ [][AnswerNext]_vars

\* =================================================================== claims

\* C1: every recorded HistoryItem has score <= total, and the accuracy shown on
\* the result screen, round(100 * score / total), lies in 0..100.
C1_ScoreWithinTotal ==
    /\ \A i \in 1..Len(history) : history[i].score <= history[i].total
    /\ gameState = "result" /\ ResultDenominator > 0
         => RoundPercent(currentScore, ResultDenominator) \in 0..100

\* C2: while the screen is quiz, 0 <= currentIndex < len(activeQuestions) and the
\* solved set is a subset of [0, len(activeQuestions)).
C2_IndexInRange ==
    gameState = "quiz" =>
        /\ currentIndex \in 0..(Len(activeQuestions) - 1)
        /\ solvedQuestions \subseteq 0..(Len(activeQuestions) - 1)

\* C3: the screen never becomes quiz while allQuestions is empty.
C3_NoQuizOnEmptyBank ==
    gameState = "quiz" => Len(allQuestions) > 0

\* C4: in every state past loading some user action is enabled, and the menu is
\* the current screen or one back-click away.
C4_Navigable ==
    gameState # "loading" =>
        /\ ENABLED UserAction
        /\ gameState = "menu" \/ ENABLED ClickBack

\* C5: the history never holds more than 50 items, and on the result screen
\* (entered only by a finish that recorded an item) the item just recorded is at
\* position 0, ahead of every older item.
C5_CapAndNewestFirst ==
    /\ Len(history) <= HistoryCap
    /\ gameState = "result" =>
          /\ Len(history) >= 1
          /\ history[1].date = clock
          /\ \A i \in 2..Len(history) : history[i].date < clock

\* C5 witness: an item was recorded on top of a full history.
C5_Witness ==
    /\ gameState = "result"
    /\ Len(history) = HistoryCap
    /\ history[1].date = clock
    /\ history[HistoryCap] = OldItem(HistoryCap - 1)

\* C6: every tracked question text has 0 <= correctCount <= attemptCount.
C6_CorrectWithinAttempts ==
    \A t \in DOMAIN questionStats :
        /\ 0 <= questionStats[t].correct
        /\ questionStats[t].correct <= questionStats[t].total

\* C6 witness: a text answered both correctly and wrongly.
C6_Witness ==
    \E t \in DOMAIN questionStats :
        /\ questionStats[t].correct >= 1
        /\ questionStats[t].correct < questionStats[t].total

\* C7: an answer given while the current question is already answered changes
\* neither the solved set, the recorded correctness and choice, nor the
\* statistics and their persisted form.
C7_AnswerOnce ==
    [][ (isCorrect # "null" /\ ClickAnswer)
           => UNCHANGED <<solvedQuestions, isCorrect, userSelectedIndex,
                          questionStats, lsStats, attempted>> ]_vars

\* C7 witness: an answered question on screen, its option handler callable.
C7_Witness ==
    /\ QuizRendered
    /\ isCorrect # "null"
    /\ ENABLED ClickAnswer

\* C8: a start with selectedCount <= 0 leaves the screen at menu and the session
\* progress, the active subset, the history and the statistics as they were.
C8_StartRejected ==
    [][ (selectedCount <= 0 /\ ClickStart)
           => /\ gameState' = "menu"
              /\ UNCHANGED <<gameState, activeQuestions, progressVars, history,
                             lsHistory, questionStats, lsStats>> ]_vars

\* C8 witness: the menu with a loaded bank and a requested count of 0.
C8_Witness ==
    /\ gameState = "menu"
    /\ selectedCount = 0
    /\ Len(allQuestions) > 0
    /\ ENABLED ClickStart

\* C9: an early finish at index 0 with the current question unanswered records
\* nothing (history and its persisted form unchanged) and shows the menu.
C9_EarlyExitAtStart ==
    [][ (currentIndex = 0 /\ isCorrect = "null" /\ ClickFinishEarly)
           => (gameState' = "menu" /\ UNCHANGED <<history, lsHistory>>) ]_vars

\* C9 witness: a quiz at index 0, unanswered, over a non-empty history.
C9_Witness ==
    /\ QuizRendered
    /\ currentIndex = 0
    /\ isCorrect = "null"
    /\ Len(history) > 0
    /\ ENABLED ClickFinishEarly

\* C10: the item recorded by an early finish has total = currentIndex + 1 if the
\* current question is answered and currentIndex otherwise, and that total is
\* the number of questions reached (answered) in the session.
C10_EarlyTotalIsReached ==
    (gameState = "result" /\ Len(history) > 0 /\ history[1].mode.early) =>
        /\ history[1].total = FinishedCount
        /\ history[1].total = Cardinality(attempted)

\* C11: an early finish in a session where at least one question has been
\* answered appends exactly one HistoryItem (the new item on top, the older items
\* behind it) and shows the result.
C11_EarlyFinishRecords ==
    [][ (attempted # {} /\ ClickFinishEarly)
           => /\ gameState' = "result"
              /\ Len(history') = Min(Len(history) + 1, HistoryCap)
              /\ history'[1].date = clock + 1
              /\ \A i \in 1..(Len(history') - 1) : history'[i + 1] = history[i] ]_vars

\* The text of the n-th option of a row, n counted from 1 as in the sheet.
OptionAt(q, n) ==
    CASE n = 1 -> q.option1
      [] n = 2 -> q.option2
      [] n = 3 -> q.option3
      [] n = 4 -> q.option4

\* The k-th smallest position of a set of positions.
NthOf(positions, k) ==
    CHOOSE p \in positions : Cardinality({r \in positions : r < p}) = k - 1

\* C12: on the result screen of a normal finish the recorded item has score =
\* size of the solved set, total = number of session questions, and its mistakes
\* are, in position order, one record for each position of [0, total) not in the
\* solved set, holding that question's text and the text of its correct option;
\* with every question solved the mistakes are empty and score = total.
C12_NormalFinishItem ==
    (gameState = "result" /\ ~history[1].mode.early) =>
        LET item == history[1]
            missed == (0..(Len(activeQuestions) - 1)) \ solvedQuestions
        IN /\ item.score = Cardinality(solvedQuestions)
           /\ item.total = Len(activeQuestions)
           /\ Len(item.mistakes) = Cardinality(missed)
           /\ \A k \in 1..Len(item.mistakes) :
                 LET q == activeQuestions[NthOf(missed, k) + 1]
                 IN /\ item.mistakes[k].question = q.question
                    /\ item.mistakes[k].correctAnswer = OptionAt(q, Number(q.answer))
           /\ (missed = {} => item.mistakes = <<>> /\ item.score = item.total)

\* A normal finish of two questions, one solved and one missed.
C12_Witness ==
    /\ gameState = "result"
    /\ ~history[1].mode.early
    /\ history[1].total = 2
    /\ history[1].score = 1
    /\ Len(history[1].mistakes) = 1

\* C13: an answer given while none is pending adds exactly 1 to the attempt
\* count of the current question's text and 1 to its correct count iff the answer
\* was correct, starting from a zero record when the text has none, and leaves the
\* records of all other texts as they were.
C13_AnswerCountsOnce ==
    [][ (QuizRendered /\ isCorrect = "null" /\ ClickAnswer) =>
          LET text == activeQuestions[currentIndex + 1].question
              before == IF text \in DOMAIN questionStats
                        THEN questionStats[text]
                        ELSE [total |-> 0, correct |-> 0]
          IN /\ isCorrect' # "null"
             /\ DOMAIN questionStats' = DOMAIN questionStats \cup {text}
             /\ questionStats'[text].total = before.total + 1
             /\ questionStats'[text].correct =
                   before.correct + (IF isCorrect' = "true" THEN 1 ELSE 0)
             /\ \A other \in DOMAIN questionStats \ {text} :
                   questionStats'[other] = questionStats[other] ]_vars

\* The same text answered once wrong and once right, next to an older record of
\* another text.
C13_Witness ==
    /\ "Z" \in DOMAIN questionStats
    /\ "A" \in DOMAIN questionStats
    /\ questionStats["A"] = [total |-> 2, correct |-> 1]
    /\ questionStats["Z"] = OldStats["Z"]

\* C14: in every quiz state the quiz can be abandoned by the back control, which
\* leads to the menu, writes no history entry (the history and its stored form
\* are unchanged) and leaves the statistics recorded so far in place.
C14_AbandonAnywhere ==
    gameState = "quiz" =>
        ENABLED (/\ ClickBack
                 /\ gameState' = "menu"
                 /\ UNCHANGED <<history, lsHistory, questionStats, lsStats>>)

ListedEdges ==
    {<<"loading", "menu">>,
     <<"menu", "quiz">>, <<"quiz", "menu">>,
     <<"menu", "history">>, <<"history", "menu">>,
     <<"menu", "stats">>, <<"stats", "menu">>,
     <<"quiz", "result">>,
     <<"result", "menu">>, <<"menu", "result">>,
     <<"result", "history">>, <<"history", "result">>,
     <<"result", "stats">>, <<"stats", "result">>}

\* C16 (as stated): the first screen is loading and every change of screen
\* follows a listed edge, so loading is never entered again.
C16_ListedEdgesOnly ==
    /\ gameState = "loading"
    /\ [][gameState' # gameState => <<gameState, gameState'>> \in ListedEdges]_vars

\* C16 (amended): the first screen is loading and every change of screen
\* follows a listed edge or the edge result -> quiz of the restart button, so
\* loading is never entered again.
C16_ListedEdgesAndRestart ==
    /\ gameState = "loading"
    /\ [][gameState' # gameState =>
             <<gameState, gameState'>> \in ListedEdges \cup {<<"result", "quiz">>}]_vars

\* A result screen from which the restart leads straight into the quiz.
C16_Witness ==
    /\ gameState = "result"
    /\ ENABLED (ClickStart /\ gameState' = "quiz")

\* C17: reading a stored history or stored statistics that is absent or cannot
\* be parsed raises no error and yields the empty default: the value read from
\* such a string is empty, and once the sheet has been parsed the menu is shown.
C17_ReadFailureRecovered ==
    /\ ~crashed
    /\ (fetchState # "idle" /\ ~Parseable(lsHistory)) => history = <<>>
    /\ (fetchState # "idle" /\ ~Parseable(lsStats)) => questionStats = EmptyStats
    /\ (fetchState = "done") => gameState # "loading"

\* Every item of the older list is still in the newer one, at its place or one
\* place further back, unless that place lies beyond the cap.
KeepsItems(older, newer) ==
    \/ older = <<>>
    \/ \E d \in {0, 1} :
          \A i \in 1..Len(older) :
             i + d <= HistoryCap => (i + d <= Len(newer) /\ newer[i + d] = older[i])

\* Every text with a record in the older mapping has one in the newer mapping.
KeepsKeys(older, newer) == DOMAIN older \subseteq DOMAIN newer

\* C18: a reset that changes anything empties the statistics and the history
\* together, in memory and in storage; no other step removes a statistics entry
\* or a history entry, in memory or in storage, except the item the cap of 50
\* pushes out.
C18_OnlyResetRemoves ==
    [][ /\ (ClickClear /\ <<history, questionStats, lsHistory, lsStats>>' #
                          <<history, questionStats, lsHistory, lsStats>>) =>
              /\ history' = <<>>
              /\ questionStats' = EmptyStats
              /\ lsHistory' = Absent
              /\ lsStats' = Absent
        /\ ~ClickClear =>
              /\ KeepsItems(history, history')
              /\ KeepsKeys(questionStats, questionStats')
              /\ Parseable(lsHistory) =>
                    /\ Parseable(lsHistory')
                    /\ KeepsItems(JSON_parse(lsHistory), JSON_parse(lsHistory'))
              /\ Parseable(lsStats) =>
                    /\ Parseable(lsStats')
                    /\ KeepsKeys(JSON_parse(lsStats), JSON_parse(lsStats')) ]_vars

\* Everything empty after a session was recorded and answers were counted: a
\* reset has removed them.
C18_Witness ==
    /\ clock > 0
    /\ history = <<>>
    /\ questionStats = EmptyStats
    /\ lsHistory = Absent
    /\ lsStats = Absent

\* C19: across every step other than a reset, no text loses its record and
\* neither its attempt count nor its correct count decreases.
C19_CountsNeverDecrease ==
    [][ ~ClickClear =>
          \A text \in DOMAIN questionStats :
             /\ text \in DOMAIN questionStats'
             /\ questionStats'[text].total >= questionStats[text].total
             /\ questionStats'[text].correct >= questionStats[text].correct ]_vars

\* A text whose counts have grown twice.
C19_Witness ==
    /\ "A" \in DOMAIN questionStats
    /\ questionStats["A"] = [total |-> 2, correct |-> 2]

\* C20: on the stats screen, whatever the bank and the statistics, every
\* question with zero attempts stands behind every question with at least one
\* attempt in the ranking.
C20_UnansweredLast ==
    gameState = "stats" =>
        LET ranking == getSortedStats
        IN \A i, j \in 1..Len(ranking) :
              (ranking[i].statTotal = 0 /\ ranking[j].statTotal > 0) => j < i

\* A stats screen over a bank in which an unanswered question stands before an
\* answered one of accuracy above zero.
C20_Witness ==
    /\ gameState = "stats"
    /\ \E i, j \in 1..Len(allQuestions) :
          /\ i < j
          /\ allQuestions[i].question \notin DOMAIN questionStats
          /\ allQuestions[j].question \in DOMAIN questionStats
          /\ questionStats[allQuestions[j].question].correct > 0

\* C21: on the stats screen, among the questions with at least one attempt the
\* ranking is ascending in correct/total, and of two such questions with the
\* same accuracy the one with more attempts stands first.
C21_AscendingAccuracy ==
    gameState = "stats" =>
        LET ranking == getSortedStats
        IN \A i, j \in 1..Len(ranking) :
              (i < j /\ ranking[i].statTotal > 0 /\ ranking[j].statTotal > 0) =>
                 LET left == ranking[i].statCorrect * ranking[j].statTotal
                     right == ranking[j].statCorrect * ranking[i].statTotal
                 IN /\ left <= right
                    /\ left = right => ranking[i].statTotal >= ranking[j].statTotal

\* A stats screen over a bank that holds an answered question before one of
\* lower accuracy, and an answered question before one of the same accuracy
\* with more attempts.
C21_Witness ==
    /\ gameState = "stats"
    /\ \E i, j, k, l \in 1..Len(allQuestions) :
          LET stat(n) == StatOf(questionStats, allQuestions[n].question)
          IN /\ i < j /\ k < l
             /\ stat(i).total > 0 /\ stat(j).total > 0
             /\ stat(k).total > 0 /\ stat(l).total > 0
             /\ stat(i).correct * stat(j).total > stat(j).correct * stat(i).total
             /\ stat(k).correct * stat(l).total = stat(l).correct * stat(k).total
             /\ stat(k).total < stat(l).total

\* C22: whenever the result screen is shown, the denominator of its accuracy is
\* the total of the session just recorded and is at least 1.
C22_DenominatorPositive ==
    gameState = "result" =>
        /\ Len(history) > 0
        /\ ResultDenominator = history[1].total
        /\ ResultDenominator >= 1

\* The result screen of an early exit after a single question.
C22_Witness ==
    /\ gameState = "result"
    /\ history[1].mode.early
    /\ history[1].total = 1

\* C23: in a quiz started on a non-empty bank with a count k >= 1, the session
\* holds exactly min(k, length of the bank) questions, and they are pairwise
\* different entries of the bank.
C23_SubsetOfBank ==
    (gameState = "quiz" /\ allQuestions # <<>> /\ selectedCount >= 1) =>
        /\ Len(activeQuestions) = Min(selectedCount, Len(allQuestions))
        /\ \E entry \in [1..Len(activeQuestions) -> 1..Len(allQuestions)] :
              /\ \A i, j \in 1..Len(activeQuestions) : i # j => entry[i] # entry[j]
              /\ \A i \in 1..Len(activeQuestions) :
                    activeQuestions[i] = allQuestions[entry[i]]

\* A quiz of two questions out of a bank of three in which the first entry of
\* the bank is not played.
C23_Witness ==
    /\ gameState = "quiz"
    /\ Len(allQuestions) = 3
    /\ selectedCount = 2
    /\ Len(activeQuestions) = 2
    /\ \A i \in 1..2 : activeQuestions[i] # allQuestions[1]

\* C24: when the download ends, by success or by failure, the menu is
\* eventually shown; the end of a failed or empty download itself shows the
\* menu and leaves the bank empty.
C24_MenuReached ==
    /\ <>(gameState = "menu")
    /\ [][(PapaError \/ PapaComplete(<<>>)) =>
             (gameState' = "menu" /\ allQuestions' = <<>>)]_vars

\* The two sequences have the same length and hold the same elements the same
\* number of times.
SameElements(a, b) ==
    /\ Len(a) = Len(b)
    /\ \E p \in Permutations(1..Len(a)) : \A i \in 1..Len(a) : a[i] = b[p[i]]

\* C25: for every bank and every choice of the swap positions, the shuffled
\* bank has the length and the elements of the bank, each as often as the bank
\* has it, and the start that shuffles the bank leaves the bank itself as it was.
C25_ShuffleIsPermutation ==
    /\ [](\A rnd \in AllDraws(Len(allQuestions)) :
             SameElements(shuffleArray(allQuestions, rnd), allQuestions))
    /\ [][(ClickStartAnyDraw /\ gameState' = "quiz") =>
             /\ allQuestions' = allQuestions
             /\ selectedCount >= Len(allQuestions) =>
                   SameElements(activeQuestions', allQuestions)]_vars

\* A quiz over the whole bank of three rows, one of them repeated, in an order
\* other than the bank's.
C25_Witness ==
    /\ gameState = "quiz"
    /\ Len(allQuestions) = 3
    /\ Len(activeQuestions) = 3
    /\ allQuestions[1] = allQuestions[2]
    /\ activeQuestions # allQuestions

\* C26: on the menu and on the result screen with a count of at least 1 the
\* start is available, and whatever progress the previous session left, every
\* outcome of it has the index at 0, the solved set empty, no answer pending and
\* the quiz screen shown.
C26_StartResetsProgress ==
    (gameState \in {"menu", "result"} /\ selectedCount >= 1) =>
        /\ ENABLED ClickStart
        /\ ~ENABLED (/\ ClickStart
                     /\ ~(/\ currentIndex' = 0
                          /\ solvedQuestions' = {}
                          /\ isCorrect' = "null"
                          /\ userSelectedIndex' = NoIndex
                          /\ gameState' = "quiz"))

\* A fresh quiz after a session of this page has been recorded.
C26_Witness ==
    /\ gameState = "quiz"
    /\ clock > 0
    /\ currentIndex = 0
    /\ solvedQuestions = {}
    /\ isCorrect = "null"
    /\ attempted = {}

\* C27: in the quiz, while the current question is unanswered next is not
\* available; once it is answered, next with another question left moves the
\* index up by exactly 1 and clears the pending answer, leaving the solved set,
\* the history and the statistics (in memory and stored) as they were, and next
\* with no question left is the normal finish.
C27_NextAfterAnswer ==
    QuizRendered =>
        IF isCorrect = "null"
        THEN ~ENABLED ClickNext
        ELSE IF currentIndex + 1 < Len(activeQuestions)
        THEN /\ ENABLED ClickNext
             /\ ~ENABLED (/\ ClickNext
                          /\ ~(/\ currentIndex' = currentIndex + 1
                               /\ isCorrect' = "null"
                               /\ userSelectedIndex' = NoIndex
                               /\ UNCHANGED <<gameState, solvedQuestions, history,
                                              questionStats, lsHistory, lsStats>>))
        ELSE ~ENABLED (ClickNext /\ ~finishQuiz(FALSE))

\* The second question of a quiz, reached by next from an answered first one.
C27_Witness ==
    /\ QuizRendered
    /\ currentIndex = 1
    /\ isCorrect = "null"
    /\ attempted = {0}

\* C28: in the quiz previous is always available; with the index above 0 every
\* outcome of it has the index lower by exactly 1 and no answer pending, with
\* the solved set, the session's questions, the history and the statistics (in
\* memory and stored) as they were; with the index at 0 it changes nothing.
C28_PreviousStepsBack ==
    QuizRendered =>
        /\ ENABLED ClickPrev
        /\ ~ENABLED (/\ ClickPrev
                     /\ ~(IF currentIndex > 0
                          THEN /\ currentIndex' = currentIndex - 1
                               /\ isCorrect' = "null"
                               /\ userSelectedIndex' = NoIndex
                               /\ UNCHANGED <<gameState, solvedQuestions,
                                              activeQuestions, history,
                                              questionStats, lsHistory, lsStats>>
                          ELSE UNCHANGED vars))

\* The first question again, reached by previous after it was solved.
C28_Witness ==
    /\ QuizRendered
    /\ currentIndex = 0
    /\ isCorrect = "null"
    /\ solvedQuestions = {0}
    /\ attempted = {0}

\* C29: once the loading screen has been left, in every state the stored
\* statistics are the statistics in memory and the stored history is the
\* history in memory, an absent key standing for the empty value.
C29_StorageMirrorsMemory ==
    gameState # "loading" =>
        /\ Parseable(lsStats) \/ lsStats = Absent
        /\ Parseable(lsHistory) \/ lsHistory = Absent
        /\ questionStats = IF lsStats = Absent THEN EmptyStats ELSE JSON_parse(lsStats)
        /\ history = IF lsHistory = Absent THEN <<>> ELSE JSON_parse(lsHistory)

\* A session recorded and an answer counted in this page, both stored.
C29_Witness ==
    /\ clock > 0
    /\ "A" \in DOMAIN questionStats
    /\ lsStats # Absent
    /\ lsHistory # Absent
    /\ history[1].date = clock

\* C30: whichever callback of the download ends the loading screen, the step
\* from loading to the menu is taken only after the mount effect has read the
\* two keys, and it ends in a state whose history and statistics in memory are
\* the stored ones, an absent key standing for the empty value.
C30_MenuAfterReads ==
    gameState = "loading" =>
        ~ENABLED (/\ Next
                  /\ gameState' = "menu"
                  /\ ~(/\ fetchState # "idle"
                       /\ Parseable(lsHistory') \/ lsHistory' = Absent
                       /\ Parseable(lsStats') \/ lsStats' = Absent
                       /\ history' =
                            IF lsHistory' = Absent THEN <<>> ELSE JSON_parse(lsHistory')
                       /\ questionStats' =
                            IF lsStats' = Absent THEN EmptyStats ELSE JSON_parse(lsStats')))

\* The menu as the download leaves it, with the stored history and statistics
\* of earlier visits in memory.
C30_Witness ==
    /\ gameState = "menu"
    /\ clock = 0
    /\ activeQuestions = <<>>
    /\ Len(history) = HistoryCap
    /\ "Z" \in DOMAIN questionStats
    /\ lsHistory # Absent

\* C31: whatever the order the shuffle gave the options, an answer is recorded
\* as correct exactly when the option chosen is the one the row names as its
\* answer (by its original number, hence by its text), and the index of the
\* question is in the solved set exactly when the answer is correct.
C31_CorrectByOriginalIndex ==
    (gameState = "quiz" /\ isCorrect # "null") =>
        LET q == activeQuestions[currentIndex + 1]
            chosen == currentOptions[userSelectedIndex + 1]
        IN /\ isCorrect = "true" <=> chosen.originalIndex = Number(q.answer)
           /\ isCorrect = "true" <=> chosen.text = OptionAt(q, Number(q.answer))
           /\ currentIndex \in solvedQuestions <=> isCorrect = "true"

\* A correct answer given at a display position other than the option's
\* original one.
C31_Witness ==
    /\ gameState = "quiz"
    /\ isCorrect = "true"
    /\ userSelectedIndex + 1 # Number(activeQuestions[currentIndex + 1].answer)
    /\ solvedQuestions = {currentIndex}

\* C32: a finish that records an item alters no item already recorded: in
\* memory and in storage the item that was at position i is afterwards at
\* position i + 1 for every i with i + 1 < 50, the list grows by one up to the
\* cap, and nothing but the item pushed to position 50 is dropped.
C32_OlderItemsShift ==
    QuizRendered =>
        ~ENABLED (/\ ClickNext \/ ClickFinishEarly
                  /\ gameState' = "result"
                  /\ ~(/\ Len(history') = Min(Len(history) + 1, HistoryCap)
                       /\ \A i \in 0..(Len(history) - 1) :
                             i + 1 < HistoryCap => history'[i + 2] = history[i + 1]
                       /\ Parseable(lsHistory')
                       /\ JSON_parse(lsHistory') = history'))

\* A result screen whose history is full: the new item on top, the 49 newest
\* stored items behind it, each one place further back.
C32_Witness ==
    /\ gameState = "result"
    /\ Len(history) = HistoryCap
    /\ history[1].date = clock
    /\ \A i \in 1..(HistoryCap - 1) : history[i + 1] = OldItem(i)

\* C33: a history or stats screen entered from the result screen offers a
\* direct way back to the result screen.
C33_BackToResult ==
    [][(gameState = "result" /\ gameState' \in {"history", "stats"}) =>
          (ENABLED (UserAction /\ gameState' = "result"))']_vars

\* C34: the statistics hold one record per question text, so on the stats
\* screen every question of the bank is shown with the counts recorded under
\* its text, and two questions of the bank with the same text are shown with
\* the same attempt count and the same correct count.
C34_SharedRecordPerText ==
    gameState = "stats" =>
        LET ranking == getSortedStats
        IN /\ Len(ranking) = Len(allQuestions)
           /\ \A i \in 1..Len(ranking) :
                 IF ranking[i].question \in DOMAIN questionStats
                 THEN /\ ranking[i].statTotal = questionStats[ranking[i].question].total
                      /\ ranking[i].statCorrect = questionStats[ranking[i].question].correct
                 ELSE ranking[i].statTotal = 0 /\ ranking[i].statCorrect = 0
           /\ \A i, j \in 1..Len(ranking) :
                 ranking[i].question = ranking[j].question =>
                    /\ ranking[i].statTotal = ranking[j].statTotal
                    /\ ranking[i].statCorrect = ranking[j].statCorrect

\* The stats screen after a session in which two different rows of the same
\* text were answered once each: one record with two attempts.
C34_Witness ==
    /\ gameState = "stats"
    /\ Len(allQuestions) = 2
    /\ allQuestions[1] # allQuestions[2]
    /\ allQuestions[1].question = allQuestions[2].question
    /\ attempted = {0, 1}
    /\ DOMAIN questionStats = {allQuestions[1].question}
    /\ questionStats[allQuestions[1].question].total = 2

\* C35: during a quiz no control takes an index out of the solved set, so an
\* index answered correctly stays in it until the next start, whatever is
\* answered on a later visit; and the score, the size of the solved set, counts
\* no more than the positions answered.
C35_SolvedSetGrows ==
    gameState = "quiz" =>
        /\ ~ENABLED (UserAction /\ ~(solvedQuestions \subseteq solvedQuestions'))
        /\ currentScore <= Cardinality(attempted)

\* A question solved earlier in the session, visited again and now answered
\* wrongly, still in the solved set.
C35_Witness ==
    /\ QuizRendered
    /\ isCorrect = "false"
    /\ currentIndex \in solvedQuestions
    /\ currentScore = 1

\* C36: whenever the result screen is shown the history is not empty and its
\* first item is the record of the session just finished: made at this finish,
\* its score the size of the solved set, its total the denominator shown.
C36_ResultShowsNewestItem ==
    gameState = "result" =>
        /\ Len(history) > 0
        /\ history[1].date = clock
        /\ history[1].score = currentScore
        /\ history[1].total = ResultDenominator

\* The result screen of a session with two questions solved.
C36_Witness ==
    /\ gameState = "result"
    /\ currentScore = 2
    /\ history[1].score = 2

\* C37: in every quiz state every position below the current one has been
\* answered in this session, and no control of the quiz takes a position out of
\* the answered ones; so every position below the furthest one reached, which
\* was the current one when it was reached, has been answered in this session.
C37_NoSkipping ==
    gameState = "quiz" =>
        /\ \A position \in 0..(currentIndex - 1) : position \in attempted
        /\ ~ENABLED (/\ UserAction
                     /\ gameState' = "quiz"
                     /\ ~(/\ attempted \subseteq attempted'
                          /\ currentIndex' > currentIndex =>
                                /\ currentIndex' = currentIndex + 1
                                /\ isCorrect # "null"
                                /\ currentIndex \in attempted))

\* The second question answered, the first one answered before it.
C37_Witness ==
    /\ QuizRendered
    /\ currentIndex = 1
    /\ isCorrect # "null"
    /\ attempted = {0, 1}

\* C38: once the stored statistics are loaded, the sum of the attempt counts
\* over all texts goes up by exactly 1 at every answer given while none is
\* pending, a question visited again included, and is changed by no other step
\* than a reset.
C38_SumCountsAnswers ==
    fetchState # "idle" =>
        LET sum == SumTotals(questionStats, DOMAIN questionStats)
            sumAfter == SumTotals(questionStats', DOMAIN questionStats')
        IN /\ ~ENABLED (ClickAnswer /\ isCorrect = "null" /\ sumAfter # sum + 1)
           /\ ~ENABLED (ClickAnswer /\ isCorrect # "null" /\ sumAfter # sum)
           /\ ~ENABLED (Next /\ ~ClickAnswer /\ ~ClickClear /\ sumAfter # sum)

\* The first question answered, left by next, visited again by previous and
\* answered again: three answers counted in a session of two questions.
C38_Witness ==
    /\ QuizRendered
    /\ currentIndex = 0
    /\ isCorrect # "null"
    /\ attempted = {0, 1}
    /\ SumTotals(questionStats, DOMAIN questionStats) = 3
    /\ "Z" \notin DOMAIN questionStats

\* C39: once a load has produced a non-empty bank, selectedCount lies in
\* 0..Len(allQuestions) in every state; a count input outside that range
\* leaves selectedCount as it was; and no step other than a count input on
\* the menu screen changes selectedCount.
C39_CountWithinBank ==
    allQuestions # <<>> =>
        /\ selectedCount \in 0..Len(allQuestions)
        /\ \A val \in CountInputs \ (0..Len(allQuestions)) :
               ~ENABLED (handleCountChange(val) /\ selectedCount' # selectedCount)
        /\ ~ENABLED (/\ Next
                     /\ selectedCount' # selectedCount
                     /\ ~(gameState = "menu" /\ ChangeCount))

\* The menu of a two-question bank after a count input has lowered the count
\* the load had set, with a session already recorded.
C39_Witness ==
    /\ gameState = "menu"
    /\ Len(allQuestions) = MaxBank
    /\ selectedCount = 1
    /\ history # <<>>

====
